---- MODULE Spec2Model ----
(***************************************************************************)
(* Model of the search-collector transformer: the Transformer worker pool  *)
(* (Start, transformRoutine, handleRoutineExit) and the Policy adapter     *)
(* (PolicyResource.BuildNode).                                             *)
(*                                                                         *)
(* Channels are queues: an intake channel holds the values its producers   *)
(* have sent or are blocked sending, in order; Output holds at most OutCap *)
(* Nodes and a send blocks while it is full.  Start is called once.        *)
(* Spec and LiveSpec run the pool on resources of one typed kind and of    *)
(* the dynamic type; DispatchSpec runs one routine over every concrete     *)
(* type; PolicySpec runs the adapter over the Policies.                    *)
(***************************************************************************)
EXTENDS Integers, Sequences, FiniteSets, TLC

\* ------------------------------------------------------------------ bounds
MaxRoutines == 2      \* largest numRoutines passed to Start
MaxRes == 2           \* resources a producer may submit in one run
OutCap == 1           \* capacity of the Output channel
MaxDispatchRes == 2   \* resources per run when every concrete type is enumerated
MaxTemplates == 2     \* longest Spec.RoleTemplates slice
MaxRules == 5         \* longest Rules slice of one role template
MaxCalls == 2         \* BuildNode calls made on one adapter

\* the runs about a full Output need one resource more than the others: one
\* to fill Output, and more than numRoutines behind it
BackRes == MaxRes + 1

\* goroutine identities: Start launches at most MaxRoutines, and each respawn
\* consumes one distinct resource
Goroutines == 1..(MaxRoutines + BackRes)
ResIds == 1..BackRes
NoRes == 0

\* ------------------------------------------------------------ Go types
\* a concrete Go type: the package alias of the import and the type name
GoType(pkg, kind) == [pkg |-> pkg, kind |-> kind]

\* the thirteen concrete types named by the type switch of transformRoutine
RegisteredTypes ==
  { GoType("core", "ConfigMap"), GoType("batchBeta", "CronJob"),
    GoType("apps", "DaemonSet"), GoType("apps", "Deployment"),
    GoType("batch", "Job"), GoType("core", "Namespace"), GoType("core", "Node"),
    GoType("core", "PersistentVolume"), GoType("core", "Pod"),
    GoType("apps", "ReplicaSet"), GoType("core", "Secret"),
    GoType("core", "Service"), GoType("apps", "StatefulSet") }

\* the type carried by DynamicInput
Unstructured == GoType("unstructured", "Unstructured")

\* machineryV1.Object implementations the switch does not name: another
\* kind, the dynamic type, and a registered kind name in another API package
UnregisteredTypes ==
  { GoType("core", "Endpoints"), Unstructured, GoType("extensions", "Deployment") }

AllTypes == RegisteredTypes \cup UnregisteredTypes

\* what one transformation call does: return a Node, panic with a non-nil
\* value, or unwind with recover() = nil (runtime.Goexit, panic(nil))
Outcomes == { "ok", "panic", "goexit" }

VARIABLES
  numRoutines,   \* argument of Start
  workload,      \* ResIds -> [type, queue, outcome]: what the producers will submit
  toSubmit,      \* number of resources the producers will submit
  submitted,     \* number of resources placed on an intake channel so far
  dequeued,      \* the receives of the selects so far, in order: [g, r]
  Input,         \* Transformer.Input: resource ids waiting, head first
  DynamicInput,  \* Transformer.DynamicInput
  Output,        \* Transformer.Output: Nodes waiting for the consumer
  consumed,      \* Nodes the consumer has received from Output, in order
  startPc,       \* Start: "idle" | "loop" | "returned"
  i,             \* loop counter of Start
  startErr,      \* value returned by Start: "none" | "nil" | "error"
  pc,            \* goroutine -> "unborn" | "select" | "transform" | "send" | "exit" | "dead"
  resource,      \* goroutine -> resource id received by the select, or NoRes
  transformed,   \* goroutine -> local variable transformed
  recovered,     \* goroutine -> value recover() yields in handleRoutineExit
  policy,        \* the Policy wrapped by the PolicyResource adapter
  built,         \* Nodes returned by the BuildNode calls made so far
  nodeStore,     \* the NodeStore handed to BuildEdges: keys of the Nodes it holds
  edges          \* edge slices returned by the BuildEdges calls made so far

pipeVars == << numRoutines, workload, toSubmit, dequeued, submitted, Input, DynamicInput, Output,
               consumed, startPc, i, startErr, pc, resource, transformed, recovered >>
policyVars == << policy, built, nodeStore, edges >>
vars == << numRoutines, workload, toSubmit, dequeued, submitted, Input, DynamicInput, Output,
           consumed, startPc, i, startErr, pc, resource, transformed, recovered,
           policy, built, nodeStore, edges >>

\* ------------------------------------------------------------------ Node
\* type Node struct { UID string; Properties map[string]interface{} }
\* UIDs are abstract identities (naturals); 0 stands for the empty string
Node(uid, props) == [UID |-> uid, Properties |-> props]

\* the zero value of "var transformed Node": empty UID, nil map
ZeroNode == Node(0, <<>>)

\* the object behind resource id r, as the producers hand it over
Obj(r) == [uid |-> r, name |-> r, namespace |-> "default", type |-> workload[r].type]

\* transformCommon: the common extraction, carrying only the metadata every
\* object has
CommonKeys == { "name", "namespace" }
transformCommon(obj) ==
  Node(obj.uid, ("name" :> obj.name) @@ ("namespace" :> obj.namespace))

\* a dedicated extraction function: the common baseline plus the fields of
\* its own kind
Specialised(kind, obj) ==
  Node(obj.uid, transformCommon(obj).Properties @@ ("kind" :> kind) @@ ("specific" :> kind))

transformConfigMap(obj) == Specialised("ConfigMap", obj)
transformCronJob(obj) == Specialised("CronJob", obj)
transformDaemonSet(obj) == Specialised("DaemonSet", obj)
transformDeployment(obj) == Specialised("Deployment", obj)
transformJob(obj) == Specialised("Job", obj)
transformNamespace(obj) == Specialised("Namespace", obj)
transformNode(obj) == Specialised("Node", obj)
transformPersistentVolume(obj) == Specialised("PersistentVolume", obj)
transformPod(obj) == Specialised("Pod", obj)
transformReplicaSet(obj) == Specialised("ReplicaSet", obj)
transformSecret(obj) == Specialised("Secret", obj)
transformService(obj) == Specialised("Service", obj)
transformStatefulSet(obj) == Specialised("StatefulSet", obj)

\* transformUnstructured: the extraction of a dynamic object, which the
\* design routes to the common extraction
transformUnstructured(obj) == transformCommon(obj)

\* a type switch that lost its last case
TypeSwitchMissingCase(obj) ==
  CASE obj.type = GoType("core", "ConfigMap") -> transformConfigMap(obj)
    [] obj.type = GoType("batchBeta", "CronJob") -> transformCronJob(obj)
    [] obj.type = GoType("apps", "DaemonSet") -> transformDaemonSet(obj)
    [] obj.type = GoType("apps", "Deployment") -> transformDeployment(obj)
    [] obj.type = GoType("batch", "Job") -> transformJob(obj)
    [] obj.type = GoType("core", "Namespace") -> transformNamespace(obj)
    [] obj.type = GoType("core", "Node") -> transformNode(obj)
    [] obj.type = GoType("core", "PersistentVolume") -> transformPersistentVolume(obj)
    [] obj.type = GoType("core", "Pod") -> transformPod(obj)
    [] obj.type = GoType("apps", "ReplicaSet") -> transformReplicaSet(obj)
    [] obj.type = GoType("core", "Secret") -> transformSecret(obj)
    [] obj.type = GoType("core", "Service") -> transformService(obj)
    [] OTHER -> transformCommon(obj)

\* a type switch that matches on the kind name alone, whatever the package
TypeSwitchByKindName(obj) ==
  IF \E t \in RegisteredTypes : t.kind = obj.type.kind
    THEN Specialised(obj.type.kind, obj)
    ELSE transformCommon(obj)

\* the type switch of transformRoutine over the concrete type of resource
TypeSwitch(obj) ==
  CASE obj.type = GoType("core", "ConfigMap") -> transformConfigMap(obj)
    [] obj.type = GoType("batchBeta", "CronJob") -> transformCronJob(obj)
    [] obj.type = GoType("apps", "DaemonSet") -> transformDaemonSet(obj)
    [] obj.type = GoType("apps", "Deployment") -> transformDeployment(obj)
    [] obj.type = GoType("batch", "Job") -> transformJob(obj)
    [] obj.type = GoType("core", "Namespace") -> transformNamespace(obj)
    [] obj.type = GoType("core", "Node") -> transformNode(obj)
    [] obj.type = GoType("core", "PersistentVolume") -> transformPersistentVolume(obj)
    [] obj.type = GoType("core", "Pod") -> transformPod(obj)
    [] obj.type = GoType("apps", "ReplicaSet") -> transformReplicaSet(obj)
    [] obj.type = GoType("core", "Secret") -> transformSecret(obj)
    [] obj.type = GoType("core", "Service") -> transformService(obj)
    [] obj.type = GoType("apps", "StatefulSet") -> transformStatefulSet(obj)
    [] OTHER -> transformCommon(obj)

\* ------------------------------------------------------------- workloads
\* what a producer may submit: a typed object on Input, or an
\* unstructured.Unstructured on DynamicInput
Submissions(types) ==
  { [type |-> t, queue |-> "Input", outcome |-> o] : t \in types, o \in Outcomes }
  \cup
  { [type |-> Unstructured, queue |-> "DynamicInput", outcome |-> o] :
      o \in Outcomes }

\* the concurrency runs fix the concrete type of typed objects
MainTypes == { GoType("core", "Pod") }

\* no adapter is in play during the pipeline runs
PolicyIdle == [present |-> FALSE]

PipeInit(routines, types, n) ==
  /\ numRoutines \in routines
  /\ workload \in [ResIds -> Submissions(types)]
  /\ \A r \in ResIds : r > n => workload[r] = workload[1]
  /\ toSubmit = n
  /\ dequeued = <<>>
  /\ submitted = 0
  /\ Input = <<>>
  /\ DynamicInput = <<>>
  /\ Output = <<>>
  /\ consumed = <<>>
  /\ startPc = "idle"
  /\ i = 0
  /\ startErr = "none"
  /\ pc = [g \in Goroutines |-> "unborn"]
  /\ resource = [g \in Goroutines |-> NoRes]
  /\ transformed = [g \in Goroutines |-> ZeroNode]
  /\ recovered = [g \in Goroutines |-> "nil"]

Init ==
  /\ PipeInit((-1)..MaxRoutines, MainTypes, MaxRes)
  /\ policy = PolicyIdle
  /\ built = <<>>
  /\ nodeStore = {}
  /\ edges = <<>>

\* the dispatch runs: one routine, every concrete type
DispatchInit ==
  /\ PipeInit({1}, AllTypes, MaxDispatchRes)
  /\ policy = PolicyIdle
  /\ built = <<>>
  /\ nodeStore = {}
  /\ edges = <<>>

\* the runs about a full Output: a started pool, and one resource more for
\* the pool of a single routine
BackpressureInit ==
  /\ \/ PipeInit({ 1 }, MainTypes, BackRes)
     \/ PipeInit(2..MaxRoutines, MainTypes, MaxRes)
  /\ policy = PolicyIdle
  /\ built = <<>>
  /\ nodeStore = {}
  /\ edges = <<>>

\* ------------------------------------------------------------- producers
\* a producer sends the next resource on the intake channel it belongs to
Submit ==
  /\ submitted < toSubmit
  /\ submitted' = submitted + 1
  /\ IF workload[submitted + 1].queue = "Input"
        THEN /\ Input' = Append(Input, submitted + 1)
             /\ UNCHANGED DynamicInput
        ELSE /\ DynamicInput' = Append(DynamicInput, submitted + 1)
             /\ UNCHANGED Input
  /\ UNCHANGED << numRoutines, workload, toSubmit, dequeued, Output, consumed, startPc, i,
                  startErr, pc, resource, transformed, recovered, policy, built, nodeStore, edges >>

\* the aggregator receives the next Node from Output
Consume ==
  /\ Output # <<>>
  /\ consumed' = Append(consumed, Head(Output))
  /\ Output' = Tail(Output)
  /\ UNCHANGED << numRoutines, workload, toSubmit, dequeued, submitted, Input, DynamicInput,
                  startPc, i, startErr, pc, resource, transformed, recovered,
                  policy, built, nodeStore, edges >>

\* ------------------------------------------------------------ goroutines
\* "go transformRoutine(input, dynamicInput, output)": the new goroutine takes
\* the first unused identity and stands at the select of its first iteration
Unborn == { g \in Goroutines : pc[g] = "unborn" }
NewG == CHOOSE g \in Unborn : \A h \in Unborn : g <= h
GoTransformRoutine(p) == [p EXCEPT ![NewG] = "select"]

\* ----------------------------------------------------------------- Start
\* an entry check that lets numRoutines = 0 through
StartCallOffByOne ==
  /\ startPc = "idle"
  /\ IF numRoutines < 0
        THEN /\ startPc' = "returned"
             /\ startErr' = "error"
        ELSE /\ startPc' = "loop"
             /\ UNCHANGED startErr
  /\ i' = 0
  /\ UNCHANGED << numRoutines, workload, toSubmit, dequeued, submitted, Input, DynamicInput,
                  Output, consumed, pc, resource, transformed, recovered,
                  policy, built, nodeStore, edges >>

\* Start, entry: the check of numRoutines
StartCall ==
  /\ startPc = "idle"
  /\ IF numRoutines < 1
        THEN /\ startPc' = "returned"
             /\ startErr' = "error"
        ELSE /\ startPc' = "loop"
             /\ UNCHANGED startErr
  /\ i' = 0
  /\ UNCHANGED << numRoutines, workload, toSubmit, dequeued, submitted, Input, DynamicInput,
                  Output, consumed, pc, resource, transformed, recovered,
                  policy, built, nodeStore, edges >>

\* a loop condition that runs one iteration too many
StartLoopCondInclusive == i <= numRoutines

\* the condition of the for loop of Start
StartLoopCond == i < numRoutines

\* Start, one iteration of the for loop
StartSpawn ==
  /\ startPc = "loop"
  /\ StartLoopCond
  /\ Unborn # {}
  /\ pc' = GoTransformRoutine(pc)
  /\ i' = i + 1
  /\ UNCHANGED << numRoutines, workload, toSubmit, dequeued, submitted, Input, DynamicInput,
                  Output, consumed, startPc, startErr, resource, transformed,
                  recovered, policy, built, nodeStore, edges >>

\* Start, loop exit and "return nil"
StartReturn ==
  /\ startPc = "loop"
  /\ ~StartLoopCond
  /\ startPc' = "returned"
  /\ startErr' = "nil"
  /\ UNCHANGED << numRoutines, workload, toSubmit, dequeued, submitted, Input, DynamicInput,
                  Output, consumed, i, pc, resource, transformed, recovered,
                  policy, built, nodeStore, edges >>

\* ------------------------------------------------------ transformRoutine
\* a select that reads the head of an intake channel without removing it
SelectWithoutDequeue(g) ==
  /\ pc[g] = "select"
  /\ \/ /\ Input # <<>>
        /\ resource' = [resource EXCEPT ![g] = Head(Input)]
        /\ pc' = [pc EXCEPT ![g] = "case_input"]
        /\ dequeued' = Append(dequeued, [g |-> g, r |-> Head(Input)])
     \/ /\ DynamicInput # <<>>
        /\ resource' = [resource EXCEPT ![g] = Head(DynamicInput)]
        /\ pc' = [pc EXCEPT ![g] = "case_dynamicInput"]
        /\ dequeued' = Append(dequeued, [g |-> g, r |-> Head(DynamicInput)])
  /\ UNCHANGED << numRoutines, workload, toSubmit, submitted, Input, DynamicInput,
                  Output, consumed, startPc, i, startErr, transformed, recovered,
                  policy, built, nodeStore, edges >>

\* a select that takes the value sent last on Input instead of the head
SelectInputFromTail(g) ==
  /\ pc[g] = "select"
  /\ Input # <<>>
  /\ resource' = [resource EXCEPT ![g] = Input[Len(Input)]]
  /\ Input' = SubSeq(Input, 1, Len(Input) - 1)
  /\ pc' = [pc EXCEPT ![g] = "case_input"]
  /\ dequeued' = Append(dequeued, [g |-> g, r |-> Input[Len(Input)]])
  /\ UNCHANGED << numRoutines, workload, toSubmit, submitted, DynamicInput, Output,
                  consumed, startPc, i, startErr, transformed, recovered, policy,
                  built, nodeStore, edges >>

\* a routine that takes the next resource from Input before it has sent the
\* Node of the current one
SelectInputBeforeSend(g) ==
  /\ pc[g] \in { "select", "send" }
  /\ Input # <<>>
  /\ resource' = [resource EXCEPT ![g] = Head(Input)]
  /\ Input' = Tail(Input)
  /\ pc' = [pc EXCEPT ![g] = "case_input"]
  /\ dequeued' = Append(dequeued, [g |-> g, r |-> Head(Input)])
  /\ UNCHANGED << numRoutines, workload, toSubmit, submitted, DynamicInput, Output,
                  consumed, startPc, i, startErr, transformed, recovered, policy,
                  built, nodeStore, edges >>

\* "case resource := <-input": the select takes the head of Input
SelectInput(g) ==
  /\ pc[g] = "select"
  /\ Input # <<>>
  /\ resource' = [resource EXCEPT ![g] = Head(Input)]
  /\ Input' = Tail(Input)
  /\ pc' = [pc EXCEPT ![g] = "case_input"]
  /\ dequeued' = Append(dequeued, [g |-> g, r |-> Head(Input)])
  /\ UNCHANGED << numRoutines, workload, toSubmit, submitted, DynamicInput, Output,
                  consumed, startPc, i, startErr, transformed, recovered, policy,
                  built, nodeStore, edges >>

\* a dynamic case that is taken only when Input has nothing to offer
SelectDynamicInputAfterInput(g) ==
  /\ pc[g] = "select"
  /\ Input = <<>>
  /\ DynamicInput # <<>>
  /\ resource' = [resource EXCEPT ![g] = Head(DynamicInput)]
  /\ DynamicInput' = Tail(DynamicInput)
  /\ pc' = [pc EXCEPT ![g] = "case_dynamicInput"]
  /\ dequeued' = Append(dequeued, [g |-> g, r |-> Head(DynamicInput)])
  /\ UNCHANGED << numRoutines, workload, toSubmit, submitted, Input, Output,
                  consumed, startPc, i, startErr, transformed, recovered, policy,
                  built, nodeStore, edges >>

\* "case resource := <-dynamicInput": the select takes the head of
\* DynamicInput
SelectDynamicInput(g) ==
  /\ pc[g] = "select"
  /\ DynamicInput # <<>>
  /\ resource' = [resource EXCEPT ![g] = Head(DynamicInput)]
  /\ DynamicInput' = Tail(DynamicInput)
  /\ pc' = [pc EXCEPT ![g] = "case_dynamicInput"]
  /\ dequeued' = Append(dequeued, [g |-> g, r |-> Head(DynamicInput)])
  /\ UNCHANGED << numRoutines, workload, toSubmit, submitted, Input, Output,
                  consumed, startPc, i, startErr, transformed, recovered, policy,
                  built, nodeStore, edges >>

\* the select: receive from whichever intake channel has a value
Select(g) == SelectInput(g) \/ SelectDynamicInput(g)

\* the value the body of the taken case assigns to transformed
CaseResult(g) ==
  IF pc[g] = "case_input"
    THEN TypeSwitch(Obj(resource[g]))
    ELSE transformUnstructured(Obj(resource[g]))

\* a routine that swallows the fault and carries on to the send
AfterTransformSendsAnyway(g, o) ==
  /\ transformed' = [transformed EXCEPT ![g] = IF o = "ok" THEN CaseResult(g) ELSE @]
  /\ pc' = [pc EXCEPT ![g] = "send"]
  /\ UNCHANGED recovered

\* where a goroutine goes when the transformation call ends as outcome o
AfterTransform(g, o) ==
  IF o = "ok"
    THEN /\ transformed' = [transformed EXCEPT ![g] = CaseResult(g)]
         /\ pc' = [pc EXCEPT ![g] = "send"]
         /\ UNCHANGED recovered
    ELSE /\ pc' = [pc EXCEPT ![g] = "exit"]
         /\ recovered' = [recovered EXCEPT ![g] = IF o = "panic" THEN "err" ELSE "nil"]
         /\ UNCHANGED transformed

\* the body of the taken case: one transformation call
Transform(g) ==
  /\ pc[g] \in { "case_input", "case_dynamicInput" }
  /\ AfterTransform(g, workload[resource[g]].outcome)
  /\ UNCHANGED << numRoutines, workload, toSubmit, dequeued, submitted, Input, DynamicInput,
                  Output, consumed, startPc, i, startErr, resource, policy, built, nodeStore, edges >>

\* a routine without the enclosing for loop: it returns after its first send
SendThenReturn(g) ==
  /\ pc[g] = "send"
  /\ Len(Output) < OutCap
  /\ Output' = Append(Output, transformed[g])
  /\ pc' = [pc EXCEPT ![g] = "exit"]
  /\ UNCHANGED << numRoutines, workload, toSubmit, dequeued, submitted, Input, DynamicInput,
                  consumed, startPc, i, startErr, resource, transformed, recovered,
                  policy, built, nodeStore, edges >>

\* a send that gives up when Output is full and goes on with the loop
SendOrDrop(g) ==
  /\ pc[g] = "send"
  /\ Output' = IF Len(Output) < OutCap THEN Append(Output, transformed[g]) ELSE Output
  /\ pc' = [pc EXCEPT ![g] = "select"]
  /\ resource' = [resource EXCEPT ![g] = NoRes]
  /\ transformed' = [transformed EXCEPT ![g] = ZeroNode]
  /\ UNCHANGED << numRoutines, workload, toSubmit, dequeued, submitted, Input, DynamicInput,
                  consumed, startPc, i, startErr, recovered, policy, built, nodeStore, edges >>

\* a send that does not wait for room in Output
SendWhenFull(g) ==
  /\ pc[g] = "send"
  /\ Output' = Append(Output, transformed[g])
  /\ pc' = [pc EXCEPT ![g] = "select"]
  /\ resource' = [resource EXCEPT ![g] = NoRes]
  /\ transformed' = [transformed EXCEPT ![g] = ZeroNode]
  /\ UNCHANGED << numRoutines, workload, toSubmit, dequeued, submitted, Input, DynamicInput,
                  consumed, startPc, i, startErr, recovered, policy, built, nodeStore, edges >>

\* "output <- transformed", then the next iteration with a fresh transformed
Send(g) ==
  /\ pc[g] = "send"
  /\ Len(Output) < OutCap
  /\ Output' = Append(Output, transformed[g])
  /\ pc' = [pc EXCEPT ![g] = "select"]
  /\ resource' = [resource EXCEPT ![g] = NoRes]
  /\ transformed' = [transformed EXCEPT ![g] = ZeroNode]
  /\ UNCHANGED << numRoutines, workload, toSubmit, dequeued, submitted, Input, DynamicInput,
                  consumed, startPc, i, startErr, recovered, policy, built, nodeStore, edges >>

\* ----------------------------------------------------- handleRoutineExit
\* a handler that logs the panic and starts no replacement
AfterExitNoRespawn(g) == [pc EXCEPT ![g] = "dead"]

\* a handler that starts a replacement whatever recover() yields
AfterExitAlwaysRespawn(g) == GoTransformRoutine([pc EXCEPT ![g] = "dead"])

\* a handler with the test on recover() inverted
AfterExitRespawnOnNil(g) ==
  IF recovered[g] = "nil"
    THEN GoTransformRoutine([pc EXCEPT ![g] = "dead"])
    ELSE [pc EXCEPT ![g] = "dead"]

\* the goroutines alive once the deferred handler of g has run
AfterExit(g) ==
  IF recovered[g] # "nil"
    THEN GoTransformRoutine([pc EXCEPT ![g] = "dead"])
    ELSE [pc EXCEPT ![g] = "dead"]

\* the deferred handler: recover, and start a replacement after a panic
HandleRoutineExit(g) ==
  /\ pc[g] = "exit"
  /\ recovered[g] # "nil" => Unborn # {}
  /\ pc' = AfterExit(g)
  /\ resource' = [resource EXCEPT ![g] = NoRes]
  /\ recovered' = [recovered EXCEPT ![g] = "nil"]
  /\ UNCHANGED << numRoutines, workload, toSubmit, dequeued, submitted, Input, DynamicInput,
                  Output, consumed, startPc, i, startErr, transformed, policy, built, nodeStore, edges >>

Routine(g) == Select(g) \/ Transform(g) \/ Send(g) \/ HandleRoutineExit(g)

Next ==
  \/ Submit
  \/ Consume
  \/ StartCall
  \/ StartSpawn
  \/ StartReturn
  \/ \E g \in Goroutines : Routine(g)

Spec == Init /\ [][Next]_vars

\* the scheduler runs every runnable goroutine, the caller of Start and the
\* consumer of Output; nothing is assumed of the producers
Fairness ==
  /\ WF_vars(StartCall)
  /\ WF_vars(StartSpawn)
  /\ WF_vars(StartReturn)
  /\ WF_vars(Consume)
  /\ \A g \in Goroutines : WF_vars(Routine(g))

DispatchSpec == DispatchInit /\ [][Next]_vars

BackpressureSpec == BackpressureInit /\ [][Next]_vars

LiveSpec == Init /\ [][Next]_vars /\ Fairness

\* ------------------------------------------------------ derived notions
\* every Node sent on Output so far, in the order sent
Emitted == consumed \o Output
EmittedUIDs == { Emitted[k].UID : k \in DOMAIN Emitted }

Range(q) == { q[k] : k \in DOMAIN q }
Queued == Range(Input) \cup Range(DynamicInput)
Submitted == 1..submitted

\* goroutines inside the dispatch loop, and those unwinding into the handler
Running == { g \in Goroutines : pc[g] \in { "select", "case_input", "case_dynamicInput", "send" } }
Exiting == { g \in Goroutines : pc[g] = "exit" }
Faulted == { g \in Exiting : recovered[g] # "nil" }
Holders(r) == { g \in Running : resource[g] = r }

\* resources whose transformation ended abnormally and whose handler has run
Handled(o) ==
  { r \in Submitted : /\ workload[r].outcome = o
                      /\ r \notin Queued
                      /\ \A g \in Goroutines : resource[g] # r }

\* resources taken off their channel whose transformation faulted: the bad
\* input is gone, no routine in the loop holds it
LostRes ==
  { r \in Submitted : /\ workload[r].outcome # "ok"
                      /\ r \notin Queued
                      /\ \A g \in Running : resource[g] # r }

FaultFree == \A r \in ResIds : workload[r].outcome = "ok"
NoGoexit == \A r \in ResIds : workload[r].outcome # "goexit"

\* ------------------------------------------------- continuous refilling
\* a producer sends again a resource whose Node has left the pipeline (an
\* update of the same object), on the channel it came on; the record of its
\* earlier receive is dropped with it
Resubmit(r) ==
  /\ r \in Submitted
  /\ workload[r].outcome = "ok"
  /\ r \notin Queued
  /\ \A g \in Goroutines : resource[g] # r
  /\ \A k \in DOMAIN Output : Output[k].UID # r
  /\ IF workload[r].queue = "Input"
        THEN /\ Input' = Append(Input, r)
             /\ UNCHANGED DynamicInput
        ELSE /\ DynamicInput' = Append(DynamicInput, r)
             /\ UNCHANGED Input
  /\ dequeued' = SelectSeq(dequeued, LAMBDA e : e.r # r)
  /\ UNCHANGED << numRoutines, workload, toSubmit, submitted, Output, consumed,
                  startPc, i, startErr, pc, resource, transformed, recovered,
                  policy, built, nodeStore, edges >>

\* the aggregator receives the next Node and keeps no record of it
ConsumeAndForget ==
  /\ Output # <<>>
  /\ Output' = Tail(Output)
  /\ UNCHANGED << numRoutines, workload, toSubmit, dequeued, submitted, Input, DynamicInput,
                  consumed, startPc, i, startErr, pc, resource, transformed,
                  recovered, policy, built, nodeStore, edges >>

RefillNext ==
  \/ Submit
  \/ \E r \in ResIds : Resubmit(r)
  \/ ConsumeAndForget
  \/ StartCall
  \/ StartSpawn
  \/ StartReturn
  \/ \E g \in Goroutines : Routine(g)

\* the select picks uniformly at random among the cases that can proceed:
\* a case that can proceed again and again is taken in the end
RefillFairness ==
  /\ WF_vars(StartCall)
  /\ WF_vars(StartSpawn)
  /\ WF_vars(StartReturn)
  /\ WF_vars(ConsumeAndForget)
  /\ \A g \in Goroutines : WF_vars(Transform(g) \/ Send(g) \/ HandleRoutineExit(g))
  /\ SF_vars(\E g \in Goroutines : SelectInput(g))
  /\ SF_vars(\E g \in Goroutines : SelectDynamicInput(g))

RefillSpec == Init /\ [][RefillNext]_vars /\ RefillFairness

\* -------------------------------------------------------- PolicyResource
\* type PolicyResource struct { *mcm.Policy }: the fields BuildNode reads
RemediationActions == { "enforce", "inform", "" }
ComplianceStates == { "Compliant", "NonCompliant", "" }

\* Rules []rbac.PolicyRule of one role template
RuleSeqs == UNION { [1..n -> { "rule" }] : n \in 0..MaxRules }

\* an element of Spec.RoleTemplates: a nil pointer or a role template
NilRole == [isNil |-> TRUE, Rules |-> <<>>]
Roles == { NilRole } \cup { [isNil |-> FALSE, Rules |-> rs] : rs \in RuleSeqs }

\* Spec.RoleTemplates: the nil slice or a slice of role pointers
NilSlice == [isNil |-> TRUE, elems |-> <<>>]
TemplateSlices ==
  { NilSlice } \cup
  { [isNil |-> FALSE, elems |-> e] : e \in UNION { [1..n -> Roles] : n \in 0..MaxTemplates } }

\* ObjectMeta.Labels, as far as BuildNode looks into it
LabelKeys == { "parent-namespace", "parent-policy" }
LabelValues == { "", "parent" }
LabelMaps == UNION { [D -> LabelValues] : D \in SUBSET LabelKeys }

Policies ==
  { [present |-> TRUE,
     TypeMeta |-> [Kind |-> "Policy", Group |-> "policy.mcm.ibm.com", Version |-> "v1alpha1"],
     ObjectMeta |-> [UID |-> 1, Name |-> "policy", Namespace |-> "default", Labels |-> l],
     Spec |-> [RemediationAction |-> ra, RoleTemplates |-> ts],
     Status |-> [ComplianceState |-> cs, Valid |-> v]] :
    l \in LabelMaps, ra \in RemediationActions, ts \in TemplateSlices,
    cs \in ComplianceStates, v \in BOOLEAN }

\* node.Properties[k] = v
Put(node, k, v) == Node(node.UID, (k :> v) @@ node.Properties)

\* apiGroupVersion: adds kind, apigroup and version to the node
apiGroupVersion(typeMeta, node) ==
  Put(Put(Put(node, "kind", typeMeta.Kind), "apigroup", typeMeta.Group),
      "version", typeMeta.Version)

\* a loop that counts the role templates instead of their rules
RulesOfCountsTemplates(roles) == Cardinality({ k \in DOMAIN roles : ~roles[k].isNil })

\* the loop over p.Spec.RoleTemplates: rules += int64(len(role.Rules)) for
\* every role that is not nil
RECURSIVE RulesOfLoop(_)
RulesOfLoop(roles) ==
  IF roles = <<>>
    THEN 0
    ELSE (IF ~Head(roles).isNil THEN Len(Head(roles).Rules) ELSE 0)
         + RulesOfLoop(Tail(roles))

RulesOf(roles) == RulesOfLoop(roles)

\* a copy that ignores ok and stores the zero value of a missing label
CopyLabelAlways(node, labels, key) ==
  Put(node, key, IF key \in DOMAIN labels THEN labels[key] ELSE "")

\* one optional property: copied from the label when the label is there
CopyLabel(node, labels, key) ==
  IF key \in DOMAIN labels THEN Put(node, key, labels[key]) ELSE node

\* func (p PolicyResource) BuildNode() Node
BuildNode(p) ==
  LET common == transformCommon([uid |-> p.ObjectMeta.UID, name |-> p.ObjectMeta.Name,
                                 namespace |-> p.ObjectMeta.Namespace])
      typed == apiGroupVersion(p.TypeMeta, common)
      n1 == Put(typed, "remediationAction", p.Spec.RemediationAction)
      n2 == Put(n1, "compliant", p.Status.ComplianceState)
      n3 == Put(n2, "valid", p.Status.Valid)
      rules == IF ~p.Spec.RoleTemplates.isNil
                 THEN RulesOf(p.Spec.RoleTemplates.elems)
                 ELSE 0
      n4 == Put(n3, "numRules", rules)
      n5 == CopyLabel(n4, p.ObjectMeta.Labels, "parent-namespace")
      n6 == CopyLabel(n5, p.ObjectMeta.Labels, "parent-policy")
  IN n6

\* a BuildNode that moves the parent labels out of the resource into the Node
ResourceAfterBuildNodeDropsLabels(p) ==
  [p EXCEPT !.ObjectMeta.Labels = [key \in {} |-> ""]]

\* the resource behind the adapter once BuildNode has returned: BuildNode
\* assigns to node.Properties and to its locals only
ResourceAfterBuildNode(p) == p

\* the state of the pipeline during the adapter runs: never started
PipeIdle ==
  /\ numRoutines = 0
  /\ workload = [r \in ResIds |-> [type |-> Unstructured, queue |-> "DynamicInput",
                                     outcome |-> "ok"]]
  /\ toSubmit = 0
  /\ dequeued = <<>>
  /\ submitted = 0
  /\ Input = <<>>
  /\ DynamicInput = <<>>
  /\ Output = <<>>
  /\ consumed = <<>>
  /\ startPc = "idle"
  /\ i = 0
  /\ startErr = "none"
  /\ pc = [g \in Goroutines |-> "unborn"]
  /\ resource = [g \in Goroutines |-> NoRes]
  /\ transformed = [g \in Goroutines |-> ZeroNode]
  /\ recovered = [g \in Goroutines |-> "nil"]

PolicyInit ==
  /\ PipeIdle
  /\ policy \in Policies
  /\ built = <<>>
  /\ nodeStore = {}
  /\ edges = <<>>

\* a caller invokes BuildNode on the adapter
CallBuildNode ==
  /\ policy.present
  /\ Len(built) < MaxCalls
  /\ built' = Append(built, BuildNode(policy))
  /\ policy' = ResourceAfterBuildNode(policy)
  /\ UNCHANGED << pipeVars, nodeStore, edges >>

PolicyNext == CallBuildNode

PolicySpec == PolicyInit /\ [][PolicyNext]_vars

\* ----------------------------------------------- assignments of BuildNode
\* the fields BuildNode assigns, in the order of its statements: the UID and
\* the common properties in transformCommon, kind, apigroup and version in
\* apiGroupVersion, then one statement per property of the policy
transformCommonWrites == << "UID", "name", "namespace" >>
apiGroupVersionWrites == << "kind", "apigroup", "version" >>
CopyLabelWrites(labels, key) == IF key \in DOMAIN labels THEN << key >> ELSE <<>>

\* a BuildNode that stores numRules inside the loop, once per role
BuildNodeWritesInLoop(p) ==
  transformCommonWrites \o apiGroupVersionWrites
    \o << "remediationAction", "compliant", "valid" >>
    \o (IF p.Spec.RoleTemplates.isNil
          THEN <<>>
          ELSE [k \in 1..RulesOfCountsTemplates(p.Spec.RoleTemplates.elems) |-> "numRules"])
    \o CopyLabelWrites(p.ObjectMeta.Labels, "parent-namespace")
    \o CopyLabelWrites(p.ObjectMeta.Labels, "parent-policy")

BuildNodeWrites(p) ==
  transformCommonWrites \o apiGroupVersionWrites
    \o << "remediationAction", "compliant", "valid", "numRules" >>
    \o CopyLabelWrites(p.ObjectMeta.Labels, "parent-namespace")
    \o CopyLabelWrites(p.ObjectMeta.Labels, "parent-policy")

\* a policy with both parent labels and two role templates
LabelledPolicy ==
  CHOOSE p \in Policies :
    /\ p.ObjectMeta.Labels = [key \in LabelKeys |-> "parent"]
    /\ p.Spec.RemediationAction = "enforce"
    /\ p.Status.ComplianceState = "Compliant"
    /\ p.Status.Valid
    /\ ~p.Spec.RoleTemplates.isNil
    /\ Len(p.Spec.RoleTemplates.elems) = 2
    /\ \A t \in 1..2 : /\ ~p.Spec.RoleTemplates.elems[t].isNil
                        /\ Len(p.Spec.RoleTemplates.elems[t].Rules) = 1

\* the runs about the Nodes themselves: an adapter on its own, any policy;
\* a single routine next to an adapter that is being called; a larger pool
NodeInit ==
  \/ PolicyInit
  \/ /\ PipeInit({ 1 }, MainTypes, MaxRes)
     /\ policy = LabelledPolicy
     /\ built = <<>>
     /\ nodeStore = {}
     /\ edges = <<>>
  \/ /\ PipeInit(2..MaxRoutines, MainTypes, MaxRes)
     /\ policy = PolicyIdle
     /\ built = <<>>
     /\ nodeStore = {}
     /\ edges = <<>>

NodeNext == Next \/ PolicyNext

NodeSpec == NodeInit /\ [][NodeNext]_vars

\* ------------------------------------------------------------ BuildEdges
\* a NodeStore, as far as a parent lookup would need it: the namespace and
\* name of the Nodes it holds
StoreKey(ns, name) == [namespace |-> ns, name |-> name]
StoreKeys == { StoreKey("parent", "parent"), StoreKey("default", "other") }
NodeStores == SUBSET StoreKeys

\* the parent the labels of p name, if both labels are there
HasParentLabels(p) == LabelKeys \subseteq DOMAIN p.ObjectMeta.Labels
ParentKey(p) ==
  StoreKey(p.ObjectMeta.Labels["parent-namespace"], p.ObjectMeta.Labels["parent-policy"])

Edge(src, dest, type) == [SourceUID |-> src, Dest |-> dest, EdgeType |-> type]

\* an implementation that links the policy to the parent its labels name
BuildEdgesLinksParent(p, ns) ==
  IF HasParentLabels(p)
    THEN << Edge(p.ObjectMeta.UID, ParentKey(p), "ownedBy") >>
    ELSE <<>>

\* "return []Edge{}"
BuildEdges(p, ns) == <<>>

\* ns after the call: BuildEdges does not touch its argument
NodeStoreAfterBuildEdges(p, ns) == ns

EdgesInit ==
  /\ PipeIdle
  /\ policy \in Policies
  /\ built = <<>>
  /\ nodeStore \in NodeStores
  /\ edges = <<>>

\* a caller invokes BuildEdges on the adapter
CallBuildEdges ==
  /\ policy.present
  /\ Len(edges) < MaxCalls
  /\ edges' = Append(edges, BuildEdges(policy, nodeStore))
  /\ nodeStore' = NodeStoreAfterBuildEdges(policy, nodeStore)
  /\ UNCHANGED << pipeVars, policy, built >>

EdgesNext == CallBuildEdges

EdgesSpec == EdgesInit /\ [][EdgesNext]_vars

\* ---------------------------------------------------------------- claims
\* C1: the emitted Nodes are duplicate-free, each carries the UID of a
\* distinct submitted resource, and no resource is held in flight by two
\* goroutines at once
C1_ExactlyOnce ==
  /\ \A k, l \in DOMAIN Emitted : k # l => Emitted[k].UID # Emitted[l].UID
  /\ EmittedUIDs \subseteq Submitted
  /\ \A g, h \in Goroutines :
       (g # h /\ resource[g] # NoRes /\ resource[h] # NoRes) => resource[g] # resource[h]
  /\ \A r \in Submitted : Cardinality(Holders(r)) <= 1

\* two goroutines, no fault, every submitted resource emitted
C1_Witness ==
  /\ FaultFree
  /\ numRoutines = MaxRoutines
  /\ submitted = toSubmit
  /\ Len(Emitted) = submitted
  /\ \E r \in Submitted : workload[r].queue = "Input"
  /\ \E r \in Submitted : workload[r].queue = "DynamicInput"

\* C2: without faults, with at least one routine, fair scheduling and a
\* draining consumer, every submitted resource is eventually emitted: from
\* some point on the number of emitted Nodes equals the number submitted
C2_NoOmission ==
  (numRoutines >= 1 /\ FaultFree) => <>[](Len(Emitted) = submitted)

\* one routine alone has carried every resource through to the consumer
C2_Witness ==
  /\ FaultFree
  /\ numRoutines = 1
  /\ submitted = toSubmit
  /\ Len(consumed) = submitted
  /\ \A g \in Running : pc[g] = "select"

\* C3: when the transformation of resource x panics, every resource r
\* submitted after x whose transformation does not fault is eventually
\* emitted, for every numRoutines >= 1: from some point on, each such r that
\* has been submitted has been emitted
C3_FaultIsolation ==
  (numRoutines >= 1 /\ NoGoexit) =>
    <>[](\A x, r \in Submitted :
           (x < r /\ workload[x].outcome = "panic" /\ workload[r].outcome = "ok")
           => r \in EmittedUIDs)

\* a single routine panicked on x; its replacement emitted the later r from
\* the same channel
C3_Witness ==
  /\ numRoutines = 1
  /\ \E x, r \in Submitted :
       /\ x < r
       /\ workload[x].queue = workload[r].queue
       /\ x \in Handled("panic")
       /\ r \in EmittedUIDs

\* C4: the routines in the loop, those unwinding and those that left without
\* a panic always add up to the routines Start has launched, so the loop
\* never holds more than numRoutines; every handled panic puts exactly one
\* new routine at the select; and once the panics are over the loop holds
\* exactly numRoutines routines again
C4_Supervision ==
  /\ [](/\ Cardinality(Running) + Cardinality(Exiting) + Cardinality(Handled("goexit")) = i
        /\ Cardinality(Running) <= i
        /\ i = 0 \/ i <= numRoutines)
  /\ [][\A g \in Faulted : pc'[g] = "dead" =>
          /\ Cardinality(Running') = Cardinality(Running) + 1
          /\ \E h \in Unborn : pc'[h] = "select"]_vars
  /\ (numRoutines >= 1 /\ NoGoexit) =>
       <>[](startPc = "returned" /\ Faulted = {} /\ Cardinality(Running) = numRoutines)

\* a panic has been handled and the pool is back at its configured size
C4_Witness ==
  /\ numRoutines = MaxRoutines
  /\ startPc = "returned"
  /\ Handled("panic") # {}
  /\ Exiting = {}
  /\ Cardinality(Running) = numRoutines
  /\ \E g \in Goroutines : pc[g] = "dead"

\* C5: Start with numRoutines < 1 returns the error at once, launches no
\* routine, and then nothing is ever dequeued or emitted
C5_InvalidConfig ==
  numRoutines < 1 =>
    /\ startPc # "loop"
    /\ startPc = "returned" => startErr = "error"
    /\ Unborn = Goroutines
    /\ Queued = Submitted
    /\ Len(Input) + Len(DynamicInput) = submitted
    /\ Emitted = <<>>

\* Start has refused, and resources wait on both intake channels
C5_Witness ==
  /\ numRoutines < 1
  /\ startPc = "returned"
  /\ startErr = "error"
  /\ Input # <<>>
  /\ DynamicInput # <<>>

\* C6: Start with numRoutines >= 1 can always take its next step whatever
\* the channels hold, returns nil, and has then launched exactly numRoutines
\* routines; every other routine is the replacement of a handled panic
C6_StartSucceeds ==
  numRoutines >= 1 =>
    /\ startErr # "error"
    /\ startPc = "returned" => (startErr = "nil" /\ i = numRoutines)
    /\ i <= numRoutines
    /\ Cardinality(Goroutines \ Unborn) = i + Cardinality(Handled("panic"))
    /\ startPc # "returned" => ENABLED (StartCall \/ StartSpawn \/ StartReturn)

\* Start has returned nil after launching its routines while Output is full
\* and both intake channels are empty
C6_Witness ==
  /\ numRoutines = MaxRoutines
  /\ startPc = "returned"
  /\ startErr = "nil"
  /\ Cardinality(Goroutines \ Unborn) = numRoutines
  /\ Len(Output) = OutCap
  /\ Input = <<>>
  /\ DynamicInput = <<>>

\* C7: a resource whose transformation faulted never reaches Output, and
\* once it is lost it stays lost: it is never put back on a channel and no
\* routine in the loop holds it again; every emitted Node is the Node of a
\* resource whose transformation succeeded, never the zero value
C7_AtMostOnce ==
  /\ [](/\ \A k \in DOMAIN Emitted :
             /\ Emitted[k] # ZeroNode
             /\ Emitted[k].UID \in Submitted
             /\ workload[Emitted[k].UID].outcome = "ok"
        /\ \A g \in Goroutines :
             pc[g] = "send" =>
               (resource[g] # NoRes /\ workload[resource[g]].outcome = "ok")
        /\ LostRes \cap EmittedUIDs = {})
  /\ [][LostRes \subseteq LostRes']_vars

\* a panic was handled, the replacement went on, and a later resource is out
C7_Witness ==
  /\ Handled("panic") # {}
  /\ Emitted # <<>>
  /\ submitted = toSubmit
  /\ Queued = {}
  /\ Exiting = {}
  /\ \A g \in Running : pc[g] = "select"

\* the kinds of the registry, as the design lists them
RegistryKinds ==
  { "ConfigMap", "CronJob", "DaemonSet", "Deployment", "Job", "Namespace", "Node",
    "PersistentVolume", "Pod", "ReplicaSet", "Secret", "Service", "StatefulSet" }

\* the Node the design expects for a typed resource
ExpectedTyped(r) ==
  IF workload[r].type \in RegisteredTypes
    THEN Specialised(workload[r].type.kind, Obj(r))
    ELSE transformCommon(Obj(r))

\* the resource was taken off its channel and its iteration is over
Processed(r) ==
  /\ r \in Submitted
  /\ r \notin Queued
  /\ \A g \in Goroutines : resource[g] # r

NodesOf(r) == { k \in DOMAIN Emitted : Emitted[k].UID = r }

\* C8: a typed resource of one of the thirteen registered concrete types is
\* transformed by the function of its own kind and no other, a typed
\* resource of any other type by the common extraction; either way a
\* transformation that returns yields exactly one Node
C8_TypedDispatch ==
  /\ { t.kind : t \in RegisteredTypes } = RegistryKinds
  /\ Cardinality(RegisteredTypes) = Cardinality(RegistryKinds)
  /\ \A r \in Submitted :
       workload[r].queue = "Input" =>
         /\ \A k \in NodesOf(r) : Emitted[k] = ExpectedTyped(r)
         /\ \A g \in Goroutines :
              (pc[g] = "send" /\ resource[g] = r) => transformed[g] = ExpectedTyped(r)
         /\ (Processed(r) /\ workload[r].outcome = "ok") => Cardinality(NodesOf(r)) = 1

\* a registered type and an unregistered type have both come out of Input
C8_Witness ==
  \E a, b \in Submitted :
    /\ workload[a].queue = "Input" /\ workload[b].queue = "Input"
    /\ workload[a].type = GoType("apps", "StatefulSet")
    /\ workload[b].type = GoType("core", "Endpoints")
    /\ Processed(a) /\ Processed(b)
    /\ \E k \in NodesOf(a) : Emitted[k].Properties["specific"] = "StatefulSet"
    /\ \E k \in NodesOf(b) : DOMAIN Emitted[k].Properties = CommonKeys

PolicyBaseline ==
  apiGroupVersion(policy.TypeMeta,
                  transformCommon([uid |-> policy.ObjectMeta.UID,
                                   name |-> policy.ObjectMeta.Name,
                                   namespace |-> policy.ObjectMeta.Namespace]))

\* every rule of every role template that is not nil, as (template, rule)
\* positions
RulePositions ==
  IF policy.Spec.RoleTemplates.isNil
    THEN {}
    ELSE LET roles == policy.Spec.RoleTemplates.elems
         IN UNION { { << t, k >> : k \in DOMAIN roles[t].Rules } :
                    t \in { t \in DOMAIN roles : ~roles[t].isNil } }

\* the scenario of the design: enforce, Compliant, valid, templates of 3 and
\* 5 rules
ScenarioPolicy ==
  /\ policy.Spec.RemediationAction = "enforce"
  /\ policy.Status.ComplianceState = "Compliant"
  /\ policy.Status.Valid = TRUE
  /\ ~policy.Spec.RoleTemplates.isNil
  /\ Len(policy.Spec.RoleTemplates.elems) = 2
  /\ \A t \in 1..2 : ~policy.Spec.RoleTemplates.elems[t].isNil
  /\ Len(policy.Spec.RoleTemplates.elems[1].Rules) = 3
  /\ Len(policy.Spec.RoleTemplates.elems[2].Rules) = 5

\* C10: the Node built by the Policy adapter keeps the whole common baseline
\* and always carries remediationAction, compliant, valid and numRules, with
\* numRules the number of rules over all role templates that are not nil
\* (0 for a nil or empty slice); in the scenario numRules = 8
C10_PolicyNode ==
  \A c \in DOMAIN built :
    LET props == built[c].Properties IN
      /\ built[c].UID = PolicyBaseline.UID
      /\ \A key \in DOMAIN PolicyBaseline.Properties :
           key \in DOMAIN props /\ props[key] = PolicyBaseline.Properties[key]
      /\ { "remediationAction", "compliant", "valid", "numRules" } \subseteq DOMAIN props
      /\ props["remediationAction"] = policy.Spec.RemediationAction
      /\ props["compliant"] = policy.Status.ComplianceState
      /\ props["valid"] = policy.Status.Valid
      /\ props["numRules"] = Cardinality(RulePositions)
      /\ (policy.Spec.RoleTemplates.isNil \/ policy.Spec.RoleTemplates.elems = <<>>)
           => props["numRules"] = 0
      /\ ScenarioPolicy =>
           /\ props["remediationAction"] = "enforce"
           /\ props["compliant"] = "Compliant"
           /\ props["valid"] = TRUE
           /\ props["numRules"] = 8

\* BuildNode has run on the scenario's Policy
C10_Witness ==
  /\ policy.present
  /\ ScenarioPolicy
  /\ built # <<>>
  /\ built[1].Properties["numRules"] = 8

\* C11: parent-namespace and parent-policy are properties of the built Node
\* exactly when the resource carries the label of that name, and then hold
\* the label's value; a missing label leaves the property absent
C11_ParentLabels ==
  \A c \in DOMAIN built :
    \A key \in { "parent-namespace", "parent-policy" } :
      /\ key \in DOMAIN built[c].Properties <=> key \in DOMAIN policy.ObjectMeta.Labels
      /\ key \in DOMAIN policy.ObjectMeta.Labels =>
           built[c].Properties[key] = policy.ObjectMeta.Labels[key]

\* a Node built from a resource with parent-policy and without
\* parent-namespace
C11_Witness ==
  /\ policy.present
  /\ built # <<>>
  /\ DOMAIN policy.ObjectMeta.Labels = { "parent-policy" }
  /\ policy.ObjectMeta.Labels["parent-policy"] = "parent"
  /\ "parent-policy" \in DOMAIN built[1].Properties
  /\ "parent-namespace" \notin DOMAIN built[1].Properties

C13_NoPriority ==
  /\ [](\A g \in Goroutines :
          (pc[g] = "select" /\ Input # <<>> /\ DynamicInput # <<>>) =>
            (ENABLED SelectInput(g) /\ ENABLED SelectDynamicInput(g)))
  /\ (numRoutines >= 1 /\ NoGoexit) =>
       /\ []<>(Input = <<>>) \/ []<><<\E g \in Goroutines : SelectInput(g)>>_vars
       /\ []<>(DynamicInput = <<>>) \/ []<><<\E g \in Goroutines : SelectDynamicInput(g)>>_vars

\* a single routine has taken the head of DynamicInput while a resource
\* submitted earlier waits on Input
C13_Witness ==
  /\ numRoutines = 1
  /\ Input # <<>>
  /\ \E g \in Goroutines : pc[g] = "case_dynamicInput" /\ Head(Input) < resource[g]

\* the UIDs emitted, and the resources received by the selects, in order
EmittedSeq == [k \in DOMAIN Emitted |-> Emitted[k].UID]
DequeuedSeq == [k \in DOMAIN dequeued |-> dequeued[k].r]
EmittedAt(r) == CHOOSE k \in DOMAIN Emitted : Emitted[k].UID = r

\* what routine g has received and not yet sent
Unsent(g) ==
  { dequeued[k].r : k \in { k \in DOMAIN dequeued :
                              dequeued[k].g = g /\ dequeued[k].r \notin EmittedUIDs } }

\* C14: a routine at the select holds nothing, and a routine in the loop has
\* at most one resource received and not yet sent, the one it holds; so the
\* Nodes of one routine come out in the order it received their resources,
\* and with numRoutines = 1 the emitted UIDs are the received resources in
\* the order received, without those lost to a fault
C14_OnePerIteration ==
  /\ \A g \in Goroutines :
       /\ pc[g] = "select" => (resource[g] = NoRes /\ transformed[g] = ZeroNode)
       /\ g \in Running => Unsent(g) = { resource[g] } \ { NoRes }
       /\ Cardinality(Unsent(g)) <= 1
  /\ \A a, b \in DOMAIN dequeued :
       (a < b /\ dequeued[a].g = dequeued[b].g /\ dequeued[b].r \in EmittedUIDs) =>
         /\ dequeued[a].r \in EmittedUIDs
         /\ EmittedAt(dequeued[a].r) < EmittedAt(dequeued[b].r)
  /\ numRoutines = 1 =>
       EmittedSeq = SelectSeq(DequeuedSeq, LAMBDA r : r \in EmittedUIDs)
  /\ (numRoutines = 1 /\ FaultFree) =>
       EmittedSeq = SubSeq(DequeuedSeq, 1, Len(EmittedSeq))

\* one routine received the later resource first and emitted both in the
\* order received
C14_Witness ==
  /\ numRoutines = 1
  /\ Len(Emitted) >= 2
  /\ DequeuedSeq[1] > DequeuedSeq[2]
  /\ EmittedSeq[1] = DequeuedSeq[1]
  /\ EmittedSeq[2] = DequeuedSeq[2]

DequeuedAt(r) == CHOOSE k \in DOMAIN dequeued : dequeued[k].r = r
WasDequeued(r) == \E k \in DOMAIN dequeued : dequeued[k].r = r

\* b was sent on the same intake channel after a, and came out before a
Overtaken(a, b) ==
  /\ a < b
  /\ workload[a].queue = workload[b].queue
  /\ a \in EmittedUIDs
  /\ b \in EmittedUIDs
  /\ EmittedAt(b) < EmittedAt(a)

\* C15: across routines the order of emission is not the order of
\* submission (the run reaching C15_Witness); the channel itself hands
\* resources out in the order sent, so an overtaking always involves two
\* different routines of a pool with numRoutines >= 2
C15_ReorderAcrossRoutines ==
  \A a, b \in Submitted :
    (a < b /\ workload[a].queue = workload[b].queue) =>
      /\ WasDequeued(b) => (WasDequeued(a) /\ DequeuedAt(a) < DequeuedAt(b))
      /\ Overtaken(a, b) =>
           /\ numRoutines >= 2
           /\ dequeued[DequeuedAt(a)].g # dequeued[DequeuedAt(b)].g

\* two routines, no fault: resource 2, sent on Input after resource 1, is
\* emitted first
C15_Witness ==
  /\ numRoutines >= 2
  /\ FaultFree
  /\ submitted >= 2
  /\ workload[1].queue = "Input"
  /\ Overtaken(1, 2)
  /\ EmittedSeq = << 2, 1 >>

\* resources received from an intake channel, those not (yet) emitted, and
\* those a routine in the loop is working on
Removed == Range(DequeuedSeq)
NotEmitted == Removed \ EmittedUIDs
InFlight == NotEmitted \ LostRes
PoolSize == IF numRoutines < 1 THEN 0 ELSE numRoutines

\* the two places where a routine in the loop waits
WaitsForIntake(g) == pc[g] = "select" /\ Input = <<>> /\ DynamicInput = <<>>
WaitsForOutput(g) == pc[g] = "send" /\ Len(Output) = OutCap

\* the resources received after the one whose Node fills Output was received
SinceLastEmitted ==
  { r \in NotEmitted : DequeuedAt(r) > DequeuedAt(Output[Len(Output)].UID) }

\* C16 as stated: while Output is full and has never been drained, no more
\* than numRoutines resources are off the intake channels without having been
\* emitted
C16_AtMostPoolSizeNotEmitted ==
  (Len(Output) = OutCap /\ consumed = <<>>) =>
    Cardinality(SinceLastEmitted) <= PoolSize

\* C16, amended: a routine in the loop cannot step exactly when both
\* intake channels are empty at its select or Output is full at its send; a
\* routine waiting at the send receives nothing more, so the resources off
\* the intake channels that are neither emitted nor dropped by a fault are
\* one per routine in the loop at most, hence at most numRoutines, and all
\* other submitted resources are still on their channel
C16_Backpressure ==
  /\ Len(Output) <= OutCap
  /\ \A g \in Running :
       (~ ENABLED Routine(g)) <=> (WaitsForIntake(g) \/ WaitsForOutput(g))
  /\ Cardinality(InFlight) <= Cardinality(Running)
  /\ Cardinality(Running) <= PoolSize
  /\ InFlight = { resource[g] : g \in Running } \ { NoRes }
  /\ Submitted \ Removed = Queued

\* Output is full, the routine holding the second resource waits at its send
C16_Witness ==
  /\ Len(Output) = OutCap
  /\ \E g \in Running :
       /\ WaitsForOutput(g)
       /\ ~ ENABLED Routine(g)
       /\ InFlight = { resource[g] }
       /\ NotEmitted = InFlight

\* the goroutines of the pool: in the loop, or unwinding into the handler
Pool == Running \cup Exiting

\* C17: the handler of an exiting routine starts a replacement if and only
\* if recover() yielded a value; after an exit without one nothing is
\* started and the pool is one routine smaller for good; and a routine is
\* only ever started by Start or by the handler of a panic
C17_RespawnOnlyOnFault ==
  /\ [][\A g \in Exiting : pc'[g] = "dead" =>
          /\ (recovered[g] # "nil") <=> (\E h \in Unborn : pc'[h] = "select")
          /\ recovered[g] # "nil" => Cardinality(Pool') = Cardinality(Pool)
          /\ recovered[g] = "nil" =>
               /\ Unborn' = Unborn
               /\ Running' = Running
               /\ Cardinality(Pool') = Cardinality(Pool) - 1]_vars
  /\ [][\A h \in Unborn : pc'[h] # "unborn" =>
          \/ startPc = "loop" /\ i' = i + 1
          \/ \E g \in Faulted : pc'[g] = "dead"]_vars
  /\ [](startPc = "returned" =>
          Cardinality(Pool) = PoolSize - Cardinality(Handled("goexit")))

\* a full pool after Start, one routine has left without a panic and has not
\* been replaced
C17_Witness ==
  /\ numRoutines = MaxRoutines
  /\ startPc = "returned"
  /\ Cardinality(Handled("goexit")) = 1
  /\ Exiting = {}
  /\ Cardinality(Running) = numRoutines - 1
  /\ Cardinality({ g \in Goroutines : pc[g] = "dead" }) = 1

\* the parents referenced by the edge slices returned so far
EdgeDests == UNION { { edges[c][k].Dest : k \in DOMAIN edges[c] } : c \in DOMAIN edges }

\* C18: whatever the policy and whatever the NodeStore, every call of
\* BuildEdges returns (the call is always possible, nothing is reported), the
\* slice returned is empty, so no edge names a parent missing from the
\* store, and the call leaves the NodeStore and the resource as they were
C18_NoEdges ==
  /\ [](\A c \in DOMAIN edges : edges[c] = <<>>)
  /\ [](EdgeDests \subseteq nodeStore)
  /\ [](Len(edges) < MaxCalls => ENABLED CallBuildEdges)
  /\ [][nodeStore' = nodeStore /\ policy' = policy]_vars

\* BuildEdges has run on a policy whose labels name a parent that the store
\* does not hold
C18_Witness ==
  /\ edges # <<>>
  /\ edges[1] = <<>>
  /\ HasParentLabels(policy)
  /\ ParentKey(policy) = StoreKey("parent", "parent")
  /\ ParentKey(policy) \notin nodeStore
  /\ nodeStore # {}

NoDuplicates(seq) == \A a, b \in DOMAIN seq : a # b => seq[a] # seq[b]

Occurrences(seq, x) == Cardinality({ k \in DOMAIN seq : seq[k] = x })

\* the resource a goroutine received last, and the goroutines that have left
\* the loop (they leave it only by unwinding out of a transformation)
Received(g) == { k \in DOMAIN dequeued : dequeued[k].g = g }
LastReceived(g) ==
  IF Received(g) = {}
    THEN NoRes
    ELSE dequeued[CHOOSE k \in Received(g) : \A l \in Received(g) : l <= k].r
Gone == { g \in Goroutines : pc[g] \in { "exit", "dead" } }

\* the four places of a submitted resource
OnQueue(r) == Occurrences(Input, r) + Occurrences(DynamicInput, r)
InWorker(r) == Cardinality(Holders(r))
EmittedAs(r) == Occurrences(EmittedSeq, r)
Dropped(r) == Cardinality({ g \in Gone : LastReceived(g) = r })

\* the steps of a fault of g: the unwinding out of the transformation, and
\* the deferred handler
FaultStep(g) ==
  \/ pc[g] \in { "case_input", "case_dynamicInput" } /\ pc'[g] = "exit"
  \/ pc[g] = "exit" /\ pc'[g] = "dead"

\* C20: every submitted resource is in exactly one place (on its intake
\* channel, held by one routine in the loop, emitted as one Node, or dropped
\* with the routine that unwound while holding it), and it is on the channel
\* it was submitted to; a fault of g leaves the three channels and every
\* other routine in the loop as they were (a replacement starts empty); and
\* no more Nodes are emitted than resources were received
C20_Conservation ==
  /\ [](\A r \in Submitted :
          /\ OnQueue(r) + InWorker(r) + EmittedAs(r) + Dropped(r) = 1
          /\ Occurrences(Input, r) = 1 => workload[r].queue = "Input"
          /\ Occurrences(DynamicInput, r) = 1 => workload[r].queue = "DynamicInput")
  /\ [](OnQueue(NoRes) = 0 /\ \A r \in ResIds \ Submitted : OnQueue(r) + EmittedAs(r) = 0)
  /\ [][\A g \in Goroutines : FaultStep(g) =>
          /\ Input' = Input
          /\ DynamicInput' = DynamicInput
          /\ Output' = Output
          /\ consumed' = consumed
          /\ \A h \in Running \ { g } :
               /\ pc'[h] = pc[h]
               /\ resource'[h] = resource[h]
               /\ transformed'[h] = transformed[h]
          /\ \A h \in Unborn :
               pc'[h] # "unborn" => (resource'[h] = NoRes /\ transformed'[h] = ZeroNode)
          /\ \A r \in Submitted \ { resource[g] } :
               /\ InWorker(r)' = InWorker(r)
               /\ Dropped(r)' = Dropped(r)]_vars
  /\ [](Len(Emitted) <= Len(dequeued))

\* a pool of two: one resource was dropped by a fault whose handler has run,
\* the other one is in flight in a routine that was in the loop all along
C20_Witness ==
  /\ numRoutines = 2
  /\ submitted = 2
  /\ \E g \in Goroutines :
       /\ pc[g] = "dead"
       /\ Dropped(LastReceived(g)) = 1
       /\ workload[LastReceived(g)].outcome = "panic"
  /\ \E h \in Running : resource[h] # NoRes /\ InWorker(resource[h]) = 1
  /\ Cardinality(Running) = 2

====
